---------------------------- MODULE Spec2Model ----------------------------
(***************************************************************************)
(* URI template expansion (uri.py): expand_template / Template.expand,     *)
(* Template._handle_match and the six operators, parse_expansion and       *)
(* percent_encode.                                                         *)
(*                                                                         *)
(* A text is a sequence of one-character strings.  A Python value is a     *)
(* record [t, s, l]: t = "str" with the text in s, t = "list" with the     *)
(* list of texts in l, or t = "none" for None.  A dict of caller values is *)
(* a function from key texts to values.  The dict parse_expansion builds   *)
(* is a sequence of [k, d] entries kept in the dict's iteration order.     *)
(***************************************************************************)
EXTENDS Integers, Sequences, FiniteSets, TLC

VARIABLES
    parts,      \* the template as the caller composed it: literals and blocks
    template,   \* Template.template: the template text
    values,     \* the caller's values mapping
    pc,         \* "start", "sub", "done" or "raised"
    enc,        \* Template.expand's local `values` after percent_encode
    pos,        \* re.sub: index of the next character to scan
    items,      \* re.sub: the pieces collected so far
    result,     \* the text expand returns (pc = "done")
    err         \* the exception expand raises (pc = "raised")

vars == <<parts, template, values, pc, enc, pos, items, result, err>>

-----------------------------------------------------------------------------
(* Characters: printable ASCII, code 32 at index 1.  The entry for code 96 *)
(* is a placeholder: the lexer cannot hold a back quote.                   *)

Ascii ==
    <<" ", "!", "\"", "#", "$", "%", "&", "'", "(", ")", "*", "+", ",", "-",
      ".", "/", "0", "1", "2", "3", "4", "5", "6", "7", "8", "9", ":", ";",
      "<", "=", ">", "?", "@", "A", "B", "C", "D", "E", "F", "G", "H", "I",
      "J", "K", "L", "M", "N", "O", "P", "Q", "R", "S", "T", "U", "V", "W",
      "X", "Y", "Z", "[", "\\", "]", "^", "_", "grave", "a", "b", "c", "d", "e",
      "f", "g", "h", "i", "j", "k", "l", "m", "n", "o", "p", "q", "r", "s",
      "t", "u", "v", "w", "x", "y", "z", "{", "|", "}", "~">>

Chars == {Ascii[i] : i \in 1..Len(Ascii)}

Ord == [c \in Chars |-> 31 + (CHOOSE i \in 1..Len(Ascii) : Ascii[i] = c)]

HexDigits ==
    <<"0", "1", "2", "3", "4", "5", "6", "7", "8", "9", "A", "B", "C", "D",
      "E", "F">>

IsAlnum(c) ==
    \/ Ord[c] \in 48..57
    \/ Ord[c] \in 65..90
    \/ Ord[c] \in 97..122

IsWord(c) == IsAlnum(c) \/ c = "_"

-----------------------------------------------------------------------------
(* Python values and texts *)

None == [t |-> "none", s |-> <<>>, l |-> <<>>]
Str(x) == [t |-> "str", s |-> x, l |-> <<>>]
List(x) == [t |-> "list", s |-> <<>>, l |-> x]

Get(d, k, default) == IF k \in DOMAIN d THEN d[k] ELSE default

RECURSIVE Concat(_)
Concat(ss) == IF ss = <<>> THEN <<>> ELSE Head(ss) \o Concat(Tail(ss))

RECURSIVE JoinStr(_, _)
JoinStr(sep, ss) ==
    IF ss = <<>> THEN <<>>
    ELSE IF Len(ss) = 1 THEN ss[1]
    ELSE ss[1] \o sep \o JoinStr(sep, Tail(ss))

Contains(s, c) == \E i \in 1..Len(s) : s[i] = c

RECURSIVE SplitFrom(_, _, _)
SplitFrom(s, c, cur) ==
    IF s = <<>> THEN <<cur>>
    ELSE IF Head(s) = c THEN <<cur>> \o SplitFrom(Tail(s), c, <<>>)
    ELSE SplitFrom(Tail(s), c, Append(cur, Head(s)))

Split(s, c) == SplitFrom(s, c, <<>>)


-----------------------------------------------------------------------------
(* percent_encode: urllib.quote with its default safe characters *)

\* urllib.quote(s): letters, digits and "_.-/" pass; any other character
\* becomes "%XX", XX its code in upper-case hexadecimal.
QuoteChar(c) ==
    IF IsAlnum(c) \/ c \in {"_", ".", "-", "/"} THEN <<c>>
    ELSE <<"%", HexDigits[(Ord[c] \div 16) + 1], HexDigits[(Ord[c] % 16) + 1]>>

RECURSIVE Quote(_)
Quote(s) == IF s = <<>> THEN <<>> ELSE QuoteChar(Head(s)) \o Quote(Tail(s))

RECURSIVE QuoteAll(_)
QuoteAll(l) == IF l = <<>> THEN <<>> ELSE <<Quote(Head(l))>> \o QuoteAll(Tail(l))

\* EncodeValue with the elements of a list left unencoded
EncodeValueTextsOnly(v) == IF v.t = "list" THEN v ELSE Str(Quote(v.s))

\* rv[k] = [quote(s) for s in v] for a list, quote(v) for a string
EncodeValue(v) == IF v.t = "list" THEN List(QuoteAll(v.l)) ELSE Str(Quote(v.s))

percent_encode(vals) == [k \in DOMAIN vals |-> EncodeValue(vals[k])]

-----------------------------------------------------------------------------
(* The dict of variables parse_expansion builds.  A Python 2 dict iterates *)
(* its hash table slot by slot: a new dict has 8 slots and a key goes to   *)
(* slot hash(key) mod 8, so keys(), items() come out by slot, not by       *)
(* insertion ({'a': None, 'c': '1', 'b': None} in the docstring).          *)

Xor3(a, b) ==
    ((a + b) % 2)
    + 2 * (((a \div 2) + (b \div 2)) % 2)
    + 4 * (((a \div 4) + (b \div 4)) % 2)

\* The low three bits of the string hash: x = ord(s[0]) << 7; for each
\* character x = (1000003 * x) ^ ord(c); at last x ^= len(s).
RECURSIVE HashLow(_, _)
HashLow(s, x) ==
    IF s = <<>> THEN x
    ELSE HashLow(Tail(s), Xor3((3 * x) % 8, Ord[Head(s)] % 8))

DictSlot(k) == Xor3(HashLow(k, 0), Len(k) % 8)

HasKey(vs, k) == \E i \in 1..Len(vs) : vs[i].k = k

\* DictSet of a dict that keeps insertion order
DictSetAppend(vs, k, d) ==
    IF HasKey(vs, k)
    THEN [i \in 1..Len(vs) |-> IF vs[i].k = k THEN [k |-> k, d |-> d] ELSE vs[i]]
    ELSE Append(vs, [k |-> k, d |-> d])

\* variables[varname] = vardefault: a key already there keeps its place and
\* takes the new default; a new key goes where its slot puts it (keys whose
\* slots collide are probed further: after the earlier one here).
DictSet(vs, k, d) ==
    IF HasKey(vs, k)
    THEN [i \in 1..Len(vs) |-> IF vs[i].k = k THEN [k |-> k, d |-> d] ELSE vs[i]]
    ELSE LET n == Cardinality({i \in 1..Len(vs) : DictSlot(vs[i].k) <= DictSlot(k)})
         IN  SubSeq(vs, 1, n) \o <<[k |-> k, d |-> d]>> \o SubSeq(vs, n + 1, Len(vs))

-----------------------------------------------------------------------------
(* parse_expansion *)

Raise(e, what, tok) == [err |-> e, what |-> what, tok |-> tok]
NoError == Raise("none", "", <<>>)

\* _varname_pattern: ^[A-Za-z0-9]\w*$
VarnameMatch(s) ==
    /\ s # <<>>
    /\ IsAlnum(s[1])
    /\ \A i \in 2..Len(s) : IsWord(s[i])

\* The body of the loop over vars_, from token i on, with the dict so far.
RECURSIVE ParseVars(_, _, _)
ParseVars(toks, i, acc) ==
    IF i > Len(toks) THEN [e |-> NoError, vars |-> acc]
    ELSE LET var == toks[i]
             hasEq == Contains(var, "=")
             sp == Split(var, "=")
         IN  IF hasEq /\ Len(sp) # 2
                 THEN [e |-> Raise("ValueError", "", <<>>), vars |-> <<>>]
             ELSE IF hasEq /\ sp[2] = <<>>
                 THEN [e |-> Raise("TemplateSyntaxError", "Invalid variable", var),
                       vars |-> <<>>]
             ELSE LET varname == IF hasEq THEN sp[1] ELSE var
                      vardefault == IF hasEq THEN Str(sp[2]) ELSE None
                  IN  IF ~VarnameMatch(varname)
                          THEN [e |-> Raise("TemplateSyntaxError", "Invalid variable",
                                            varname),
                                vars |-> <<>>]
                      ELSE ParseVars(toks, i + 1, DictSet(acc, varname, vardefault))

parse_expansion(expansion) ==
    LET hasBar == Contains(expansion, "|")
        sp == Split(expansion, "|")
    IN  IF hasBar /\ Len(sp) # 3
            THEN [e |-> Raise("ValueError", "", <<>>), op |-> None, arg |-> None,
                  vars |-> <<>>]
        ELSE LET op == IF hasBar
                       THEN Str(IF sp[1] = <<>> THEN <<>> ELSE Tail(sp[1]))
                       ELSE None
                 arg == IF hasBar THEN Str(sp[2]) ELSE None
                 vars_ == IF hasBar THEN sp[3] ELSE expansion
                 pv == ParseVars(Split(vars_, ","), 1, <<>>)
             IN  [e |-> pv.e, op |-> op, arg |-> arg, vars |-> pv.vars]


-----------------------------------------------------------------------------
(* The operators of Template.  Each returns [e, val]: the exception raised *)
(* (NoError if none) and the value returned.                               *)

Return(v) == [e |-> NoError, val |-> v]
Throw(e) == [e |-> e, val |-> None]

\* hasattr(v, "__iter__"): a list has it, a Python 2 str has not
HasIter(v) == v.t = "list"

\* len(v)
PyLen(v) == IF v.t = "list" THEN Len(v.l) ELSE Len(v.s)

\* The truth value of a text, as `if op:` and `if self.operator_opt(...)` take it
Truthy(v) == v.t = "str" /\ v.s # <<>>

RECURSIVE OptFrom(_, _, _, _)
OptFrom(variables, i, arg, vals) ==
    IF i > Len(variables) THEN <<>>
    ELSE LET v == Get(vals, variables[i].k, None)
         IN  IF v = None \/ (HasIter(v) /\ PyLen(v) = 0)
             THEN OptFrom(variables, i + 1, arg, vals)
             ELSE arg

operator_opt(variables, arg, vals) == Return(Str(OptFrom(variables, 1, arg, vals)))

\* operator_neg with its two branches exchanged
operator_neg_exchanged(variables, arg, vals) ==
    IF Truthy(operator_opt(variables, arg, vals).val)
    THEN Return(Str(arg))
    ELSE Return(Str(<<>>))

operator_neg(variables, arg, vals) ==
    IF Truthy(operator_opt(variables, arg, vals).val)
    THEN Return(Str(<<>>))
    ELSE Return(Str(arg))

\* The items str.join iterates: the elements of a list, the characters of a str
Iterate(v) == IF v.t = "list" THEN v.l ELSE [i \in 1..Len(v.s) |-> <<v.s[i]>>]

operator_listjoin(variables, arg, vals) ==
    LET k == variables[1].k
    IN  Return(Str(JoinStr(arg, Iterate(Get(vals, k, List(<<>>))))))

\* "%s" of a value: a str as it is, a list as its repr.  The elements are
\* percent-encoded, so the repr of each is the element in single quotes.
RECURSIVE ReprItems(_)
ReprItems(l) ==
    IF l = <<>> THEN <<>>
    ELSE <<(<<"'">> \o Head(l) \o <<"'">>)>> \o ReprItems(Tail(l))

Format(v) ==
    IF v.t = "list" THEN <<"[">> \o JoinStr(<<",", " ">>, ReprItems(v.l)) \o <<"]">>
    ELSE v.s

RECURSIVE JoinPairs(_, _, _)
JoinPairs(variables, i, vals) ==
    IF i > Len(variables) THEN <<>>
    ELSE LET v == Get(vals, variables[i].k, variables[i].d)
         IN  (IF v # None THEN <<variables[i].k \o <<"=">> \o Format(v)>> ELSE <<>>)
             \o JoinPairs(variables, i + 1, vals)

operator_join(variables, arg, vals) ==
    Return(Str(JoinStr(arg, JoinPairs(variables, 1, vals))))

operator_prefix(variables, arg, vals) ==
    LET v == Get(vals, variables[1].k, variables[1].d)
    IN  IF v # None /\ PyLen(v) > 0
        THEN IF v.t = "list" THEN Throw(Raise("TypeError", "", <<>>))
             ELSE Return(Str(arg \o v.s))
        ELSE Return(Str(<<>>))

operator_append(variables, arg, vals) ==
    LET v == Get(vals, variables[1].k, variables[1].d)
    IN  IF v # None /\ PyLen(v) > 0
        THEN IF v.t = "list" THEN Throw(Raise("TypeError", "", <<>>))
             ELSE Return(Str(v.s \o arg))
        ELSE Return(Str(<<>>))

N_opt == <<"o", "p", "t">>
N_neg == <<"n", "e", "g">>
N_listjoin == <<"l", "i", "s", "t", "j", "o", "i", "n">>
N_join == <<"j", "o", "i", "n">>
N_prefix == <<"p", "r", "e", "f", "i", "x">>
N_append == <<"a", "p", "p", "e", "n", "d">>

\* getattr(self, "operator_" + op)(variables, arg, values)
CallOperator(op, variables, arg, vals) ==
    IF op = N_opt THEN operator_opt(variables, arg, vals)
    ELSE IF op = N_neg THEN operator_neg(variables, arg, vals)
    ELSE IF op = N_listjoin THEN operator_listjoin(variables, arg, vals)
    ELSE IF op = N_join THEN operator_join(variables, arg, vals)
    ELSE IF op = N_prefix THEN operator_prefix(variables, arg, vals)
    ELSE IF op = N_append THEN operator_append(variables, arg, vals)
    ELSE Throw(Raise("TemplateSyntaxError", "Unexpected operator", op))

\* _handle_match with a declared default taken before the caller's value
handle_match_default_first(body, vals) ==
    LET p == parse_expansion(body)
    IN  IF p.e # NoError THEN Throw(p.e)
        ELSE IF Truthy(p.op) THEN CallOperator(p.op.s, p.vars, p.arg.s, vals)
        ELSE IF Len(p.vars) # 1 THEN Throw(Raise("AssertionError", "", <<>>))
        ELSE Return(IF p.vars[1].d # None THEN p.vars[1].d
                    ELSE Get(vals, p.vars[1].k, None))

\* Template._handle_match on the text inside one pair of braces
handle_match(body, vals) ==
    LET p == parse_expansion(body)
    IN  IF p.e # NoError THEN Throw(p.e)
        ELSE IF Truthy(p.op) THEN CallOperator(p.op.s, p.vars, p.arg.s, vals)
        ELSE IF Len(p.vars) # 1 THEN Throw(Raise("AssertionError", "", <<>>))
        ELSE Return(Get(vals, p.vars[1].k, p.vars[1].d))

-----------------------------------------------------------------------------
(* _template_pattern.sub: the scan for {([^}]+)} *)

\* Where the block opened at i closes: the first "}" after i (0 if none)
CloseOf(s, i) ==
    IF \E j \in (i + 1)..Len(s) : s[j] = "}"
    THEN CHOOSE j \in (i + 1)..Len(s) :
             s[j] = "}" /\ \A k \in (i + 1)..(j - 1) : s[k] # "}"
    ELSE 0

\* The pattern matches at i: a "{", one character or more that is no "}", a "}"
MatchAt(s, i) == s[i] = "{" /\ CloseOf(s, i) > i + 1

\* The leftmost match at or after `from` (0 if none)
Search(s, from) ==
    IF \E i \in from..Len(s) : MatchAt(s, i)
    THEN CHOOSE i \in from..Len(s) :
             MatchAt(s, i) /\ \A k \in from..(i - 1) : ~MatchAt(s, k)
    ELSE 0

\* Literal starting one character late
LiteralOffByOne(s, from, to) ==
    IF from >= to THEN <<>> ELSE <<Str(SubSeq(s, from + 1, to))>>

\* The literal text from..to, as the piece re.sub keeps (none when empty)
Literal(s, from, to) == IF from > to THEN <<>> ELSE <<Str(SubSeq(s, from, to))>>

\* The piece a callback's return value adds (None adds nothing)
Piece(v) == IF v = None THEN <<>> ELSE <<v>>

\* The join of the pieces at the end of re.sub: every piece must be a str
RECURSIVE JoinList(_)
JoinList(its) == IF its = <<>> THEN <<>> ELSE Head(its).s \o JoinList(Tail(its))

AllStr(its) == \A i \in 1..Len(its) : its[i].t = "str"


-----------------------------------------------------------------------------
(* The templates and values expand_template is called with.  A template is *)
(* composed of parts: literal text, a block {vars}, a block                *)
(* {opToken|arg|vars}, or a block {body} of any other body.                *)

MaxVars == 2        \* variables declared in one block
MaxListLen == 2     \* elements of a list value
MaxParts == 3       \* parts of a composed template

Lit(t) == [kind |-> "lit", text |-> t, op |-> <<>>, arg |-> <<>>, vars |-> <<>>]
Raw(b) == [kind |-> "raw", text |-> b, op |-> <<>>, arg |-> <<>>, vars |-> <<>>]
Plain(vs) == [kind |-> "plain", text |-> <<>>, op |-> <<>>, arg |-> <<>>, vars |-> vs]
Op(tok, arg, vs) == [kind |-> "op", text |-> <<>>, op |-> tok, arg |-> arg, vars |-> vs]

Var(n) == [name |-> n, d |-> None]
VarDefault(n, d) == [name |-> n, d |-> Str(d)]

RenderVar(v) == IF v.d = None THEN v.name ELSE v.name \o <<"=">> \o v.d.s

RenderVars(vs) == JoinStr(<<",">>, [i \in 1..Len(vs) |-> RenderVar(vs[i])])

\* The text between the braces of a block
BodyOf(p) ==
    IF p.kind = "raw" THEN p.text
    ELSE IF p.kind = "plain" THEN RenderVars(p.vars)
    ELSE p.op \o <<"|">> \o p.arg \o <<"|">> \o RenderVars(p.vars)

RenderPart(p) == IF p.kind = "lit" THEN p.text ELSE <<"{">> \o BodyOf(p) \o <<"}">>

RenderTemplate(ps) == Concat([i \in 1..Len(ps) |-> RenderPart(ps[i])])

A == <<"a">>
B == <<"b">>
C == <<"c">>

VarTokens == {Var(A), Var(B), Var(C), VarDefault(A, <<"w">>), VarDefault(B, <<"&">>)}

SeqsUpTo(S, n) == UNION {[1..m -> S] : m \in 1..n}

VarLists == SeqsUpTo(VarTokens, MaxVars)

OpTokens == {<<"-">> \o n : n \in {N_opt, N_neg, N_listjoin, N_join, N_prefix, N_append}}

Args == {<<>>, <<"&">>}

ListElems == <<(<<"&">>), (<<"|">>), (<<"_">>), (<<"x", " ">>)>>

Lists == {List(SubSeq(ListElems, 1, n)) : n \in 0..MaxListLen}

ValuesOfA == {None, Str(<<>>), Str(<<"x", "&">>)} \cup Lists
ValuesOfB == {None, Str(<<"y">>), List(<<>>), List(<<(<<"%">>)>>)}
ValuesOfC == {None, Str(<<"z">>)}

\* The mapping with a -> va, b -> vb, c -> vc; a key whose value is None is
\* absent
Mapping(va, vb, vc) ==
    LET v == (A :> va) @@ (B :> vb) @@ (C :> vc)
    IN  [k \in {x \in {A, B, C} : v[x] # None} |-> v[k]]

ValueMaps ==
    {Mapping(va, vb, vc) : va \in ValuesOfA, vb \in ValuesOfB, vc \in ValuesOfC}

\* Bodies that are neither {vars} nor {-operator|arg|vars} of the six operators
RawBodies ==
    { <<"-", "o", "p", "t", "|", "a">>,                    \* -opt|a
      <<"-", "o", "p", "t", "|", "&", "|", "a", "|", "b">>, \* -opt|&|a|b
      <<"a", "=", "b", "=", "c">>,                         \* a=b=c
      <<"a", "=">>,                                        \* a=
      <<"f", ":">>,                                        \* f:
      <<"_", "a">>,                                        \* _a
      <<"a", ",">>,                                        \* a,
      <<"-", "|", "&", "|", "a">>,                         \* -|&|a
      <<"|", "&", "|", "a">>,                              \* |&|a
      <<"x", "o", "p", "t", "|", "&", "|", "a">>,          \* xopt|&|a
      <<"-", "o", "p", "|", "&", "|", "a">>,               \* -op|&|a
      <<"-", "o", "p", "t", "|", "&", "|", "a", "=">> }    \* -opt|&|a=

Blocks ==
    {Plain(vs) : vs \in VarLists}
    \cup {Op(t, g, vs) : t \in OpTokens, g \in Args, vs \in VarLists}
    \cup {Raw(b) : b \in RawBodies}

TypeOK ==
    /\ pc \in {"start", "sub", "done", "raised"}
    /\ pos \in 1..(Len(template) + 1)
    /\ template = RenderTemplate(parts)

Start(ps, vals) ==
    /\ parts = ps
    /\ template = RenderTemplate(ps)
    /\ values = vals
    /\ pc = "start"
    /\ enc = <<>>
    /\ pos = 1
    /\ items = <<>>
    /\ result = <<>>
    /\ err = NoError

\* expand_template on a template of one literal and one block
Init == \E b \in Blocks, vals \in ValueMaps : Start(<<Lit(<<"/">>), b>>, vals)

\* expand_template on a template composed of several parts.  A literal "{"
\* comes last only: anywhere else it would open a block of its own.
Literals == {Lit(<<"/", "x">>), Lit(<<"{", "}">>), Lit(<<"}">>), Lit(<<"{">>)}

PartChoices ==
    Literals
    \cup { Plain(<<Var(A)>>),
           Op(<<"-">> \o N_prefix, <<"&">>, <<VarDefault(A, <<"w">>)>>),
           Op(<<"-">> \o N_join, <<"&">>, <<Var(B), Var(A)>>),
           Raw(<<"{", "a">>) }

Composed ==
    {ps \in SeqsUpTo(PartChoices, MaxParts) :
        \A i \in 1..(Len(ps) - 1) : ps[i] # Lit(<<"{">>)}

FewValueMaps ==
    {Mapping(va, vb, None) : va \in {None, Str(<<"x", "&">>), List(<<(<<"&">>)>>)},
                             vb \in {None, Str(<<"y">>)}}

InitTemplate == \E ps \in Composed, vals \in FewValueMaps : Start(ps, vals)

\* Template.expand, line 71: values = percent_encode(values)
Encode ==
    /\ pc = "start"
    /\ enc' = percent_encode(values)
    /\ pc' = "sub"
    /\ UNCHANGED <<parts, template, values, pos, items, result, err>>

\* re.sub finds the next match and calls _handle_match on it
HandleMatch ==
    /\ pc = "sub"
    /\ Search(template, pos) # 0
    /\ LET i == Search(template, pos)
           j == CloseOf(template, i)
           r == handle_match(SubSeq(template, i + 1, j - 1), enc)
       IN  IF r.e # NoError
           THEN /\ pc' = "raised"
                /\ err' = r.e
                /\ UNCHANGED <<pos, items>>
           ELSE /\ items' = items \o Literal(template, pos, i - 1) \o Piece(r.val)
                /\ pos' = j + 1
                /\ UNCHANGED <<pc, err>>
    /\ UNCHANGED <<parts, template, values, enc, result>>

\* re.sub finds no further match: it adds the rest of the template and joins
\* the pieces; expand returns the joined text
Finish ==
    /\ pc = "sub"
    /\ Search(template, pos) = 0
    /\ LET its == items \o Literal(template, pos, Len(template))
       IN  IF AllStr(its)
           THEN /\ result' = JoinList(its)
                /\ pc' = "done"
                /\ items' = its
                /\ err' = err
           ELSE /\ pc' = "raised"
                /\ err' = Raise("TypeError", "", <<>>)
                /\ items' = its
                /\ result' = result
    /\ UNCHANGED <<parts, template, values, enc, pos>>

Next == Encode \/ HandleMatch \/ Finish

Spec == Init /\ [][Next]_vars

SpecTemplate == InitTemplate /\ [][Next]_vars


-----------------------------------------------------------------------------
(* What the properties below speak of *)

Done == pc = "done"
Raised == pc = "raised"

\* The one block of a template of Init, and the literal before it
Blk == parts[2]
Slash == <<"/">>
OneBlock == Len(parts) = 2 /\ parts[1] = Lit(Slash)

IsOp(n) == OneBlock /\ Blk.kind = "op" /\ Blk.op = <<"-">> \o n

\* What the block put in place of itself, in a finished expansion
Emitted == SubSeq(result, Len(Slash) + 1, Len(result))

CallerHas(n) == n \in DOMAIN values

\* The percent-encoding of each text a caller's value is made of, written out
QuotedOnce(t) ==
    CASE t = <<"x", "&">> -> <<"x", "%", "2", "6">>
      [] t = <<"&">> -> <<"%", "2", "6">>
      [] t = <<"|">> -> <<"%", "7", "C">>
      [] t = <<"x", " ">> -> <<"x", "%", "2", "0">>
      [] t = <<"%">> -> <<"%", "2", "5">>
      [] OTHER -> t

RECURSIVE QuotedOnceEach(_)
QuotedOnceEach(l) ==
    IF l = <<>> THEN <<>> ELSE <<QuotedOnce(Head(l))>> \o QuotedOnceEach(Tail(l))

EncodedCaller(n) ==
    IF values[n].t = "list" THEN List(QuotedOnceEach(values[n].l))
    ELSE Str(QuotedOnce(values[n].s))

\* lookup(name) of a declared variable: the caller's encoded value, else the
\* declared default, else None
LookedUp(v) == IF CallerHas(v.name) THEN EncodedCaller(v.name) ELSE v.d

DistinctNames(vs) ==
    \A i, j \in 1..Len(vs) : i # j => vs[i].name # vs[j].name

NoListValue == \A k \in DOMAIN values : values[k].t = "str"

-----------------------------------------------------------------------------
\* C1: when expand_template succeeds, the result is the template's parts in
\* their order, each literal part unchanged and each {...} block replaced by
\* what _handle_match returns for it; a template of literal parts only never
\* fails and is returned unchanged.
BlockText(p) ==
    LET r == handle_match(BodyOf(p), percent_encode(values))
    IN  IF r.val = None THEN <<>> ELSE r.val.s

Stitched ==
    Concat([i \in 1..Len(parts) |->
                IF parts[i].kind = "lit" THEN parts[i].text ELSE BlockText(parts[i])])

OnlyLiterals == \A i \in 1..Len(parts) : parts[i].kind = "lit"

C1_LiteralTextKept ==
    /\ Done => result = Stitched
    /\ OnlyLiterals => ~Raised /\ (Done => result = template)

C1_Witness ==
    /\ Done
    /\ Len(parts) = 3
    /\ parts[1] = Lit(<<"{", "}">>)
    /\ parts[2].kind = "op"
    /\ parts[3] = Lit(<<"/", "x">>)
    /\ result = <<"{", "}", "&", "x", "%", "2", "6", "/", "x">>

\* C2: a block {name} or {name=default} expands to the caller's encoded value
\* of name when the caller supplies a text (a declared default or not), else to
\* the declared default, else to the empty text, and never fails.
PlainOne == OneBlock /\ Blk.kind = "plain" /\ Len(Blk.vars) = 1

PlainExpected ==
    LET v == Blk.vars[1]
    IN  IF CallerHas(v.name) THEN QuotedOnce(values[v.name].s)
        ELSE IF v.d # None THEN v.d.s
        ELSE <<>>

OptQualifies(v) ==
    LET x == LookedUp(v) IN x # None /\ (x.t = "str" \/ Len(x.l) > 0)

C3_OptByLookup ==
    (Done /\ IsOp(N_opt))
        => Emitted = (IF \E i \in 1..Len(Blk.vars) : OptQualifies(Blk.vars[i])
                      THEN Blk.arg ELSE <<>>)

\* C4: with a non-empty arg, exactly one of {-opt|arg|vars} and
\* {-neg|arg|vars} expands to arg and the other to the empty text, for the
\* same variables and values; neither fails.
Sibling(tok) == handle_match(BodyOf(Op(tok, Blk.arg, Blk.vars)), enc)

OneOfTwo(mine, other) ==
    /\ other.e = NoError
    /\ other.val.t = "str"
    /\ \/ mine = Blk.arg /\ other.val.s = <<>>
       \/ mine = <<>> /\ other.val.s = Blk.arg

C4_NegNegatesOpt ==
    /\ (IsOp(N_opt) /\ Blk.arg # <<>>)
           => ~Raised /\ (Done => OneOfTwo(Emitted, Sibling(<<"-">> \o N_neg)))
    /\ (IsOp(N_neg) /\ Blk.arg # <<>>)
           => ~Raised /\ (Done => OneOfTwo(Emitted, Sibling(<<"-">> \o N_opt)))

C4_Witness ==
    /\ Done
    /\ IsOp(N_neg)
    /\ Blk.arg = <<"&">>
    /\ Blk.vars = <<Var(A), Var(B)>>
    /\ ~CallerHas(A)
    /\ CallerHas(B)
    /\ values[B] = List(<<>>)
    /\ Emitted = <<"&">>


\* C5 (as claimed): {-join|arg|vars} expands to the name=value pairs of the
\* declared variables whose looked-up value is present, joined with arg in
\* the order the variables are declared.
RECURSIVE DeclaredPairs(_, _)
DeclaredPairs(vs, i) ==
    IF i > Len(vs) THEN <<>>
    ELSE LET x == LookedUp(vs[i])
         IN  (IF x # None THEN <<vs[i].name \o <<"=">> \o x.s>> ELSE <<>>)
             \o DeclaredPairs(vs, i + 1)

TableOrder == <<A, C, B>>

IsDeclared(n) == \E i \in 1..Len(Blk.vars) : Blk.vars[i].name = n

LastDeclared(n) ==
    Blk.vars[CHOOSE i \in 1..Len(Blk.vars) :
                 /\ Blk.vars[i].name = n
                 /\ \A j \in (i + 1)..Len(Blk.vars) : Blk.vars[j].name # n]

ShownAs(x) ==
    IF x.t = "str" THEN x.s
    ELSE IF x.l = <<>> THEN <<"[", "]">>
    ELSE <<"[", "'">> \o JoinStr(<<"'", ",", " ", "'">>, x.l) \o <<"'", "]">>

RECURSIVE TablePairs(_)
TablePairs(i) ==
    IF i > Len(TableOrder) THEN <<>>
    ELSE LET n == TableOrder[i]
             x == IF IsDeclared(n) THEN LookedUp(LastDeclared(n)) ELSE None
         IN  (IF x # None THEN <<n \o <<"=">> \o ShownAs(x)>> ELSE <<>>)
             \o TablePairs(i + 1)

C6_FirstDeclaredOnly ==
    (Done /\ (IsOp(N_prefix) \/ IsOp(N_append)) /\ DistinctNames(Blk.vars)
          /\ NoListValue)
        => LET x == LookedUp(Blk.vars[1])
           IN  Emitted = (IF x # None /\ Len(x.s) > 0
                          THEN IF IsOp(N_prefix) THEN Blk.arg \o x.s ELSE x.s \o Blk.arg
                          ELSE <<>>)

\* C7 (as claimed): {-listjoin|arg|vars} joins with arg the elements of the
\* first declared variable's value (absent: the empty sequence); no other
\* declared variable has a part in the result.
NoDefaults == \A i \in 1..Len(Blk.vars) : Blk.vars[i].d = None
OnlyListValues == \A k \in DOMAIN values : values[k].t = "list"

C7_ListjoinFirstDeclared ==
    (Done /\ IsOp(N_listjoin) /\ DistinctNames(Blk.vars) /\ NoDefaults
          /\ OnlyListValues)
        => LET n == Blk.vars[1].name
           IN  Emitted = JoinStr(Blk.arg,
                                 IF CallerHas(n) THEN EncodedCaller(n).l ELSE <<>>)

\* C8 (as claimed): expand_template returns a text or fails with
\* TemplateSyntaxError, whatever the template and the values; a body with "|"
\* that has not three parts fails with TemplateSyntaxError, and a token with
\* two "=" is split at the first (a=b=c: name a, default b=c).
IsRaw(b) == OneBlock /\ Blk.kind = "raw" /\ Blk.text = b

C8_OnlyTemplateSyntaxError ==
    /\ Raised => err.err = "TemplateSyntaxError"
    /\ IsRaw(<<"-", "o", "p", "t", "|", "a">>) => ~Done
    /\ (IsRaw(<<"a", "=", "b", "=", "c">>) /\ ~CallerHas(A))
           => ~Raised /\ (Done => Emitted = <<"b", "=", "c">>)

\* C9 (as claimed): a block opToken|arg|vars whose operator name (opToken
\* without its leading "-") is none of the six, the empty name and an opToken
\* without "-" included, fails with TemplateSyntaxError "Unexpected operator";
\* it is never expanded.
UnknownOperatorBodies ==
    { <<"-", "|", "&", "|", "a">>,
      <<"|", "&", "|", "a">>,
      <<"x", "o", "p", "t", "|", "&", "|", "a">>,
      <<"-", "o", "p", "|", "&", "|", "a">> }

C9_UnknownOperatorFails ==
    (OneBlock /\ Blk.kind = "raw" /\ Blk.text \in UnknownOperatorBodies)
        => /\ ~Done
           /\ Raised => /\ err.err = "TemplateSyntaxError"
                        /\ err.what = "Unexpected operator"

\* C10: the values are percent-encoded once, before any block is handled:
\* each text and each element of each list (same keys, same lengths, same
\* order); what an operator returns is not encoded again, so the argument and
\* a declared default come out as written.
SingleVar == Len(Blk.vars) = 1
TheName == Blk.vars[1].name

C10_EncodedOnce ==
    /\ pc # "start"
           => /\ DOMAIN enc = DOMAIN values
              /\ \A k \in DOMAIN values : enc[k] = EncodedCaller(k)
    /\ (Done /\ IsOp(N_listjoin) /\ SingleVar /\ CallerHas(TheName)
             /\ values[TheName].t = "list")
           => Emitted = JoinStr(Blk.arg, QuotedOnceEach(values[TheName].l))
    /\ (Done /\ IsOp(N_prefix) /\ SingleVar /\ ~CallerHas(TheName)
             /\ Blk.vars[1].d # None)
           => Emitted = Blk.arg \o Blk.vars[1].d.s
    /\ (Done /\ IsOp(N_append) /\ SingleVar /\ CallerHas(TheName)
             /\ values[TheName].t = "str" /\ values[TheName].s # <<>>)
           => Emitted = QuotedOnce(values[TheName].s) \o Blk.arg

C10_Witness ==
    /\ Done
    /\ IsOp(N_listjoin)
    /\ Blk.arg = <<"&">>
    /\ Blk.vars = <<Var(A)>>
    /\ CallerHas(A)
    /\ values[A] = List(<<(<<"&">>), (<<"|">>)>>)
    /\ enc[A] = List(<<(<<"%", "2", "6">>), (<<"%", "7", "C">>)>>)
    /\ Emitted = <<"%", "2", "6", "&", "%", "7", "C">>

=============================================================================
